---- MODULE Spec2Model ----
(***************************************************************************)
(* Model of the calculator engine of src/src/App.tsx.                      *)
(*                                                                         *)
(* The component keeps one record (display, previousValue, operation,      *)
(* waitingForNumber, memory); every handler reads the record of the last   *)
(* render and replaces it with setState.  One action per handler.          *)
(*                                                                         *)
(* Values.  A JavaScript value is a record [t, h]:                         *)
(*   t = "num"        a finite number, h = twice its value (so the model   *)
(*                    carries the integers and the halves: both are exact  *)
(*                    in binary64, and so is their arithmetic);            *)
(*   t = "NaN", "undefined", "null"   the value of that name;              *)
(*   t = "offgrid"    a number the model does not carry (magnitude above   *)
(*                    MaxVal, or a fraction other than .5).  A handler     *)
(*                    that would read or produce such a number is not      *)
(*                    taken: the bound of the model.                       *)
(* -0 is identified with 0: String(-0) is "0", -0 is falsy like 0, and a   *)
(* divisor is always parsed from display, which never reads as -0.         *)
(*                                                                         *)
(* Text.  display is a sequence of one-character strings; String() and     *)
(* parseFloat() are computed character by character.                       *)
(***************************************************************************)
EXTENDS Integers, Sequences, FiniteSets, TLC

\* ------------------------------------------------------------------ bounds
\* largest magnitude of a number carried by the model
MaxVal == 6
\* largest magnitude of a number kept in memory
MaxMem == 3
\* longest display a digit or a decimal point is appended to
MaxLen == 2
\* longest tracked run of digit keys
MaxDigitKeys == 4
\* longest tracked run of keyboard keys
MaxSent == 2

\* the digit keys pressed in the model (a subset of '0'..'9')
Digits == {"0", "2", "5"}
\* the operator keys / buttons
Operators == {"+", "-", "*", "/"}

\* ------------------------------------------------------------------ values
Num(h) == [t |-> "num", h |-> h]
NaN == [t |-> "NaN", h |-> 0]
undefined == [t |-> "undefined", h |-> 0]
null == [t |-> "null", h |-> 0]
OffGrid == [t |-> "offgrid", h |-> 0]

IsNum(v) == v.t = "num"

\* a number of the grid, or OffGrid when its magnitude exceeds MaxVal
InRange(h) == IF h >= -(2 * MaxVal) /\ h <= 2 * MaxVal THEN Num(h) ELSE OffGrid

\* a value the memory register carries in the model
InMemRange(v) == v # OffGrid /\ (IsNum(v) => v.h >= -(2 * MaxMem) /\ v.h <= 2 * MaxMem)

\* ToNumber: undefined converts to NaN, null to 0
ToNumber(v) ==
  CASE v.t = "undefined" -> NaN
    [] v.t = "null" -> Num(0)
    [] OTHER -> v

Abs(n) == IF n < 0 THEN -n ELSE n

\* JavaScript a + b on numbers (operands converted with ToNumber)
JsAdd(a, b) ==
  LET x == ToNumber(a)
      y == ToNumber(b)
  IN  IF x = OffGrid \/ y = OffGrid THEN OffGrid
      ELSE IF x = NaN \/ y = NaN THEN NaN
      ELSE InRange(x.h + y.h)

\* JavaScript a - b
JsSub(a, b) ==
  LET x == ToNumber(a)
      y == ToNumber(b)
  IN  IF x = OffGrid \/ y = OffGrid THEN OffGrid
      ELSE IF x = NaN \/ y = NaN THEN NaN
      ELSE InRange(x.h - y.h)

\* JavaScript a * b: (x/2)*(y/2) = (x*y/2)/2, on the grid when x*y is even
JsMul(a, b) ==
  LET x == ToNumber(a)
      y == ToNumber(b)
  IN  IF x = OffGrid \/ y = OffGrid THEN OffGrid
      ELSE IF x = NaN \/ y = NaN THEN NaN
      ELSE IF (x.h * y.h) % 2 # 0 THEN OffGrid
      ELSE InRange((x.h * y.h) \div 2)

\* JavaScript a / b for b # 0: (x/2)/(y/2) = (2x/y)/2, on the grid when y
\* divides 2x
JsDiv(a, b) ==
  LET x == ToNumber(a)
      y == ToNumber(b)
  IN  IF x = OffGrid \/ y = OffGrid THEN OffGrid
      ELSE IF x = NaN \/ y = NaN THEN NaN
      ELSE IF y.h = 0 THEN OffGrid
      ELSE IF (2 * Abs(x.h)) % Abs(y.h) # 0 THEN OffGrid
      ELSE LET q == (2 * Abs(x.h)) \div Abs(y.h)
           IN  InRange(IF (x.h < 0) = (y.h < 0) THEN q ELSE -q)

\* v || 0 on a number or null: NaN, 0 and null are falsy
OrZero(v) == IF v = NaN \/ v = null \/ v = Num(0) THEN Num(0) ELSE v

\* -------------------------------------------------------------------- text
DigitChars == <<"0", "1", "2", "3", "4", "5", "6", "7", "8", "9">>

IsDigit(c) == c \in {"0", "1", "2", "3", "4", "5", "6", "7", "8", "9"}

DigitVal(c) ==
  CASE c = "0" -> 0 [] c = "1" -> 1 [] c = "2" -> 2 [] c = "3" -> 3 [] c = "4" -> 4
    [] c = "5" -> 5 [] c = "6" -> 6 [] c = "7" -> 7 [] c = "8" -> 8 [] c = "9" -> 9

RECURSIVE NatStr(_)
\* decimal digits of a natural number
NatStr(n) ==
  IF n < 10 THEN <<DigitChars[n + 1]>>
  ELSE NatStr(n \div 10) \o <<DigitChars[(n % 10) + 1]>>

\* String(v): the shortest decimal text of a number, or the value's name
String(v) ==
  CASE v.t = "NaN" -> <<"N", "a", "N">>
    [] v.t = "undefined" -> <<"u", "n", "d", "e", "f", "i", "n", "e", "d">>
    [] v.t = "null" -> <<"n", "u", "l", "l">>
    [] OTHER ->
       (IF v.h < 0 THEN <<"-">> ELSE <<>>)
         \o NatStr(Abs(v.h) \div 2)
         \o (IF Abs(v.h) % 2 = 1 THEN <<".", "5">> ELSE <<>>)

RECURSIVE DigitPrefix(_)
\* the longest prefix of s made of digits
DigitPrefix(s) ==
  IF s = <<>> \/ ~IsDigit(Head(s)) THEN <<>>
  ELSE <<Head(s)>> \o DigitPrefix(Tail(s))

RECURSIVE NatVal(_)
\* the natural number written by a sequence of digits (0 for none)
NatVal(s) ==
  IF s = <<>> THEN 0
  ELSE 10 * NatVal(SubSeq(s, 1, Len(s) - 1)) + DigitVal(s[Len(s)])

RECURSIVE StripTrailingZeros(_)
StripTrailingZeros(s) ==
  IF s # <<>> /\ s[Len(s)] = "0" THEN StripTrailingZeros(SubSeq(s, 1, Len(s) - 1))
  ELSE s

\* parseFloat(s): the number written by the longest numeric prefix of s
\* (optional sign, digits, optional point and digits), NaN when there is none
parseFloat(s) ==
  LET neg == s # <<>> /\ Head(s) = "-"
      body == IF s # <<>> /\ (Head(s) = "-" \/ Head(s) = "+") THEN Tail(s) ELSE s
      int == DigitPrefix(body)
      rest == SubSeq(body, Len(int) + 1, Len(body))
      frac == IF rest # <<>> /\ Head(rest) = "." THEN DigitPrefix(Tail(rest)) ELSE <<>>
      sig == StripTrailingZeros(frac)
      mag == 2 * NatVal(int) + (IF sig = <<"5">> THEN 1 ELSE 0)
  IN  IF int = <<>> /\ frac = <<>> THEN NaN
      ELSE IF sig # <<>> /\ sig # <<"5">> THEN OffGrid
      ELSE InRange(IF neg THEN -mag ELSE mag)

\* ------------------------------------------------------------------- state
VARIABLES display, previousValue, operation, waitingForNumber, memory, keys,
          sent, update

vars == <<display, previousValue, operation, waitingForNumber, memory, keys,
          sent, update>>

\* the five fields of CalculatorState
state == <<display, previousValue, operation, waitingForNumber, memory>>

\* operation: null (no pending operation) is the string "null"
NoOperation == "null"

\* -------------------------------------------------------- history of keys
\* keys is a history variable, not part of the program: the keys pressed
\* since start-up, kept while they follow one of the Scripts below and
\* Untracked afterwards.
Untracked == <<"untracked">>

\* a digit key is of class "D", an operator key of class "O", any other key
\* is its own class
KeyClass(k) == IF k \in Digits THEN "D" ELSE IF k \in Operators THEN "O" ELSE k

Scripts ==
  { <<"D", "O", "D", "O", "D", "=">>,
    <<"D", "O", "D", "=", "=">>,
    <<"D", "O", "D", "CE", "=">>,
    <<"D", "O", "O">>,
    <<"D", "=", "D">>,
    <<"D", "M+", "MR", "MC", "MR">>,
    <<"D", "M+", "AC", "MR">>,
    <<"D", "MR", "D">>,
    <<"D", "s", "s">>,
    <<".", ".">>,
    <<"D", ".", ".">>,
    <<".", "s", "s">>,
    <<"D", ".", "s", "s">>,
    <<"D", "M+", "O", "D", "=">>,
    [i \in 1..MaxDigitKeys |-> "D"] }

IsScript(s) ==
  \E sh \in Scripts :
    /\ Len(s) <= Len(sh)
    /\ \A i \in 1..Len(s) : KeyClass(s[i]) = sh[i]

Track(k) ==
  IF keys # Untracked /\ IsScript(Append(keys, k)) THEN Append(keys, k)
  ELSE Untracked

\* sent is a history variable too: the keyboard keys dispatched since
\* start-up, kept for the first MaxSent keys while no button is used, and
\* Untracked afterwards.
Sent(key) ==
  IF sent # Untracked /\ Len(sent) < MaxSent THEN Append(sent, key)
  ELSE Untracked

\* update: the key whose handler made the last setState call that React
\* has not rendered yet; NoUpdate when the state on screen is current
NoUpdate == "none"

\* ------------------------------------------------------------------ engine
\* calculate with a division by zero giving NaN in place of 0
calculate_zeroDivisorNaN(firstValue, secondValue, op) ==
  CASE op = "+" -> JsAdd(firstValue, secondValue)
    [] op = "-" -> JsSub(firstValue, secondValue)
    [] op = "*" -> JsMul(firstValue, secondValue)
    [] op = "/" -> IF secondValue # Num(0) THEN JsDiv(firstValue, secondValue)
                   ELSE NaN
    [] OTHER -> secondValue

\* calculate(firstValue, secondValue, operation)
calculate(firstValue, secondValue, op) ==
  CASE op = "+" -> JsAdd(firstValue, secondValue)
    [] op = "-" -> JsSub(firstValue, secondValue)
    [] op = "*" -> JsMul(firstValue, secondValue)
    [] op = "/" -> IF secondValue # Num(0) THEN JsDiv(firstValue, secondValue)
                   ELSE Num(0)
    [] OTHER -> secondValue

Init ==
  /\ display = <<"0">>
  /\ previousValue = null
  /\ operation = NoOperation
  /\ waitingForNumber = FALSE
  /\ memory = Num(0)
  /\ keys = <<>>
  /\ sent = <<>>
  /\ update = NoUpdate

\* inputNumber that appends to a display of "0" too
inputNumber_alwaysAppends(num) ==
  /\ IF waitingForNumber
     THEN /\ display' = <<num>>
          /\ waitingForNumber' = FALSE
     ELSE /\ Len(display) < MaxLen
          /\ display' = display \o <<num>>
          /\ UNCHANGED waitingForNumber
  /\ UNCHANGED <<previousValue, operation, memory>>
  /\ keys' = Track(num)

\* inputNumber(num); appending stops at MaxLen characters (model bound)
inputNumber(num) ==
  /\ IF waitingForNumber
     THEN /\ display' = <<num>>
          /\ waitingForNumber' = FALSE
     ELSE /\ display # <<"0">> => Len(display) < MaxLen
          /\ display' = IF display = <<"0">> THEN <<num>> ELSE display \o <<num>>
          /\ UNCHANGED waitingForNumber
  /\ UNCHANGED <<previousValue, operation, memory>>
  /\ keys' = Track(num)

\* inputOperation that, with nothing pending, records the operator and
\* leaves previousValue absent
inputOperation_dropsOperand(nextOperation) ==
  LET inputValue == parseFloat(display)
      currentValue == OrZero(previousValue)
      newValue == calculate(currentValue, inputValue, operation)
  IN  /\ inputValue # OffGrid
      /\ IF previousValue = null
         THEN /\ operation' = nextOperation
              /\ waitingForNumber' = TRUE
              /\ UNCHANGED <<display, previousValue, memory>>
         ELSE IF operation # NoOperation
         THEN /\ newValue # OffGrid
              /\ display' = String(newValue)
              /\ previousValue' = newValue
              /\ operation' = nextOperation
              /\ waitingForNumber' = TRUE
              /\ UNCHANGED memory
         ELSE UNCHANGED state
      /\ keys' = Track(nextOperation)

\* inputOperation(nextOperation)
inputOperation(nextOperation) ==
  LET inputValue == parseFloat(display)
      currentValue == OrZero(previousValue)
      newValue == calculate(currentValue, inputValue, operation)
  IN  /\ IF previousValue = null
         THEN /\ operation' = nextOperation
              /\ waitingForNumber' = TRUE
              /\ UNCHANGED <<display, memory>>
              /\ previousValue' = inputValue
         ELSE IF operation # NoOperation
         THEN /\ operation' = nextOperation
              /\ waitingForNumber' = TRUE
              /\ UNCHANGED memory
              /\ newValue # OffGrid
              /\ display' = String(newValue)
              /\ previousValue' = newValue
         ELSE UNCHANGED state
      /\ inputValue # OffGrid
      /\ keys' = Track(nextOperation)

\* performCalculation with the operands of calculate swapped
performCalculation_swapped ==
  LET inputValue == parseFloat(display)
      newValue == calculate(inputValue, previousValue, operation)
  IN  /\ inputValue # OffGrid
      /\ IF previousValue # null /\ operation # NoOperation
         THEN /\ newValue # OffGrid
              /\ display' = String(newValue)
              /\ previousValue' = null
              /\ operation' = NoOperation
              /\ waitingForNumber' = TRUE
              /\ UNCHANGED memory
         ELSE UNCHANGED state
      /\ keys' = Track("=")

\* performCalculation that sets waitingForNumber with nothing pending too
performCalculation_alwaysWaits ==
  LET inputValue == parseFloat(display)
      newValue == calculate(previousValue, inputValue, operation)
  IN  /\ inputValue # OffGrid
      /\ IF previousValue # null /\ operation # NoOperation
         THEN /\ newValue # OffGrid
              /\ display' = String(newValue)
              /\ previousValue' = null
              /\ operation' = NoOperation
              /\ waitingForNumber' = TRUE
              /\ UNCHANGED memory
         ELSE /\ waitingForNumber' = TRUE
              /\ UNCHANGED <<display, previousValue, operation, memory>>
      /\ keys' = Track("=")

\* performCalculation that clears previousValue and leaves operation
performCalculation_keepsOperation ==
  LET inputValue == parseFloat(display)
      newValue == calculate(previousValue, inputValue, operation)
  IN  /\ inputValue # OffGrid
      /\ IF previousValue # null /\ operation # NoOperation
         THEN /\ newValue # OffGrid
              /\ display' = String(newValue)
              /\ previousValue' = null
              /\ waitingForNumber' = TRUE
              /\ UNCHANGED <<operation, memory>>
         ELSE UNCHANGED state
      /\ keys' = Track("=")

\* performCalculation (the = button, Enter and '=')
performCalculation ==
  LET inputValue == parseFloat(display)
      newValue == calculate(previousValue, inputValue, operation)
  IN  /\ IF previousValue # null /\ operation # NoOperation
         THEN /\ previousValue' = null
              /\ operation' = NoOperation
              /\ waitingForNumber' = TRUE
              /\ UNCHANGED memory
              /\ newValue # OffGrid
              /\ display' = String(newValue)
         ELSE UNCHANGED state
      /\ inputValue # OffGrid
      /\ keys' = Track("=")

\* clearDisplay (AC, Escape): the new record has no memory property, so
\* state.memory reads undefined afterwards
clearDisplay ==
  /\ display' = <<"0">>
  /\ previousValue' = null
  /\ operation' = NoOperation
  /\ waitingForNumber' = FALSE
  /\ memory' = undefined
  /\ keys' = Track("AC")

\* clearEntry that drops the pending operation as well
clearEntry_clearsPending ==
  /\ display' = <<"0">>
  /\ previousValue' = null
  /\ operation' = NoOperation
  /\ UNCHANGED <<waitingForNumber, memory>>
  /\ keys' = Track("CE")

\* clearEntry (CE, Backspace)
clearEntry ==
  /\ display' = <<"0">>
  /\ UNCHANGED <<previousValue, operation, waitingForNumber, memory>>
  /\ keys' = Track("CE")

\* memoryClear that resets display too
memoryClear_resetsDisplay ==
  /\ memory' = Num(0)
  /\ display' = <<"0">>
  /\ UNCHANGED <<previousValue, operation, waitingForNumber>>
  /\ keys' = Track("MC")

\* memoryClear (MC, 'c')
memoryClear ==
  /\ memory' = Num(0)
  /\ UNCHANGED <<display, previousValue, operation, waitingForNumber>>
  /\ keys' = Track("MC")

\* memoryRecall that leaves waitingForNumber as it is
memoryRecall_keepsFlag ==
  /\ display' = String(memory)
  /\ UNCHANGED <<previousValue, operation, waitingForNumber, memory>>
  /\ keys' = Track("MR")

\* memoryRecall (MR, 'r')
memoryRecall ==
  /\ waitingForNumber' = TRUE
  /\ UNCHANGED <<previousValue, operation, memory>>
  /\ display' = String(memory)
  /\ keys' = Track("MR")

\* memoryAdd that subtracts
memoryAdd_subtracts ==
  LET value == parseFloat(display)
  IN  /\ InMemRange(JsSub(memory, value))
      /\ memory' = JsSub(memory, value)
      /\ waitingForNumber' = TRUE
      /\ UNCHANGED <<display, previousValue, operation>>
      /\ keys' = Track("M+")

\* memoryAdd (M+, 'm'); the sum stays within MaxMem (model bound)
memoryAdd ==
  LET value == parseFloat(display)
  IN  /\ waitingForNumber' = TRUE
      /\ UNCHANGED <<display, previousValue, operation>>
      /\ memory' = JsAdd(memory, value)
      /\ InMemRange(JsAdd(memory, value))
      /\ keys' = Track("M+")

\* memorySubtract (M-, 'n'); the difference stays within MaxMem (model bound)
memorySubtract ==
  LET value == parseFloat(display)
  IN  /\ waitingForNumber' = TRUE
      /\ UNCHANGED <<display, previousValue, operation>>
      /\ memory' = JsSub(memory, value)
      /\ InMemRange(JsSub(memory, value))
      /\ keys' = Track("M-")

\* toggleSign that sets waitingForNumber
toggleSign_setsFlag ==
  LET value == JsMul(parseFloat(display), Num(-2))
  IN  /\ IF display # <<"0">>
         THEN /\ value # OffGrid
              /\ display' = String(value)
              /\ waitingForNumber' = TRUE
              /\ UNCHANGED <<previousValue, operation, memory>>
         ELSE UNCHANGED state
      /\ keys' = Track("s")

\* toggleSign (the +/- button, 's')
toggleSign ==
  LET value == JsMul(parseFloat(display), Num(-2))
  IN  /\ IF display # <<"0">>
         THEN /\ UNCHANGED <<previousValue, operation, waitingForNumber, memory>>
              /\ value # OffGrid
              /\ display' = String(value)
         ELSE UNCHANGED state
      /\ keys' = Track("s")

\* inputDecimal that writes "0." and leaves waitingForNumber set
inputDecimal_keepsFlag ==
  /\ IF waitingForNumber
     THEN /\ display' = <<"0", ".">>
          /\ UNCHANGED <<previousValue, operation, waitingForNumber, memory>>
     ELSE IF \A i \in 1..Len(display) : display[i] # "."
     THEN /\ Len(display) < MaxLen
          /\ display' = display \o <<".">>
          /\ UNCHANGED <<previousValue, operation, waitingForNumber, memory>>
     ELSE UNCHANGED state
  /\ keys' = Track(".")

\* inputDecimal ('.'); appending stops at MaxLen characters (model bound)
inputDecimal ==
  /\ IF waitingForNumber
     THEN /\ display' = <<"0", ".">>
          /\ waitingForNumber' = FALSE
          /\ UNCHANGED <<previousValue, operation, memory>>
     ELSE IF \A i \in 1..Len(display) : display[i] # "."
     THEN /\ Len(display) < MaxLen
          /\ display' = display \o <<".">>
          /\ UNCHANGED <<previousValue, operation, waitingForNumber, memory>>
     ELSE UNCHANGED state
  /\ keys' = Track(".")

\* the keys pressed in the model: the digit keys of Digits, every other key
\* handleKeyPress names, and three it does not name
KeyNames ==
  Digits \cup Operators
    \cup {"Enter", "=", "Escape", "Backspace", ".", "s", "m", "n", "r", "c"}
    \cup {"a", "S", "Tab"}

\* handleKeyPress with the handlers of 'm' and 'n' exchanged
handleKeyPress_swapsMemoryKeys(key) ==
  IF IsDigit(key) THEN inputNumber(key)
  ELSE IF key = "+" \/ key = "-" \/ key = "*" \/ key = "/" THEN inputOperation(key)
  ELSE IF key = "Enter" \/ key = "=" THEN performCalculation
  ELSE IF key = "Escape" THEN clearDisplay
  ELSE IF key = "Backspace" THEN clearEntry
  ELSE IF key = "." THEN inputDecimal
  ELSE IF key = "s" THEN toggleSign
  ELSE IF key = "m" THEN memorySubtract
  ELSE IF key = "n" THEN memoryAdd
  ELSE IF key = "r" THEN memoryRecall
  ELSE IF key = "c" THEN memoryClear
  ELSE UNCHANGED <<state, keys>>

\* handleKeyPress(event); key >= '0' && key <= '9' holds of the ten digit
\* characters alone among the keys of KeyNames
handleKeyPress(key) ==
  IF IsDigit(key) THEN inputNumber(key)
  ELSE IF key = "+" \/ key = "-" \/ key = "*" \/ key = "/" THEN inputOperation(key)
  ELSE IF key = "Enter" \/ key = "=" THEN performCalculation
  ELSE IF key = "Escape" THEN clearDisplay
  ELSE IF key = "Backspace" THEN clearEntry
  ELSE IF key = "." THEN inputDecimal
  ELSE IF key = "s" THEN toggleSign
  ELSE IF key = "m" THEN memoryAdd
  ELSE IF key = "n" THEN memorySubtract
  ELSE IF key = "r" THEN memoryRecall
  ELSE IF key = "c" THEN memoryClear
  ELSE UNCHANGED <<state, keys>>

\* a click on one of the buttons of the grid
Button ==
  \/ \E num \in Digits : inputNumber(num)
  \/ \E nextOperation \in Operators : inputOperation(nextOperation)
  \/ performCalculation
  \/ clearDisplay
  \/ clearEntry
  \/ memoryClear
  \/ memoryRecall
  \/ memoryAdd
  \/ memorySubtract
  \/ toggleSign
  \/ inputDecimal

\* a click
Click ==
  /\ Button
  /\ sent' = Untracked
  /\ UNCHANGED update

\* a keydown event
KeyDown(key) ==
  /\ handleKeyPress(key)
  /\ sent' = Sent(key)
  /\ UNCHANGED update

\* every input is rendered, and the keydown listener registered again,
\* before the next input is handled
Next ==
  \/ Click
  \/ \E key \in KeyNames : KeyDown(key)

Spec == Init /\ [][Next]_vars

\* the keyboard alone, for the first MaxSent keys after start-up
NextKeys == \E key \in KeyNames : sent # Untracked /\ Len(sent) < MaxSent /\ KeyDown(key)

SpecKeys == Init /\ [][NextKeys]_vars

\* ------------------------------------------------- the listener's closure
\* The keydown listener is the handleKeyPress of the render in which the
\* effect last ran, and its handlers read the state of that render.  Under
\* SpecEvents the five state variables hold that captured state, and update
\* holds the key of the last setState call made from it; when the effect
\* runs the last call has replaced the record and the listener is the one of
\* the new state.

\* handleKeyPress(key), run on the state held, calls setState
callsSetState(key) ==
  IF IsDigit(key) THEN TRUE
  ELSE IF key \in Operators
    THEN previousValue = null \/ operation # NoOperation
  ELSE IF key = "Enter" \/ key = "="
    THEN previousValue # null /\ operation # NoOperation
  ELSE IF key = "."
    THEN waitingForNumber \/ \A i \in 1..Len(display) : display[i] # "."
  ELSE IF key = "s" THEN display # <<"0">>
  ELSE key \in {"Escape", "Backspace", "m", "n", "r", "c"}

\* a keydown handled by the listener registered at the last run of the
\* effect: its setState call, if it makes one, replaces any earlier one
Dispatch(key) ==
  /\ sent # Untracked
  /\ Len(sent) < MaxSent
  /\ ENABLED handleKeyPress(key)
  /\ update' = IF callsSetState(key) THEN key ELSE update
  /\ sent' = Sent(key)
  /\ UNCHANGED <<state, keys>>

\* the effect runs: the record of the last setState call is the state, and
\* the listener registered is the one that captured it
Effect ==
  /\ update # NoUpdate
  /\ handleKeyPress(update)
  /\ update' = NoUpdate
  /\ UNCHANGED sent

NextEvents ==
  \/ \E key \in KeyNames : Dispatch(key)
  \/ Effect

SpecEvents == Init /\ [][NextEvents]_vars

\* ================================================================== claims
\* apply(a, b, op) as the specification defines it: add, subtract, multiply,
\* and divide with b = 0 giving 0
Apply(a, b, op) ==
  CASE op = "+" -> JsAdd(a, b)
    [] op = "-" -> JsSub(a, b)
    [] op = "*" -> JsMul(a, b)
    [] op = "/" -> IF b = Num(0) THEN Num(0) ELSE JsDiv(a, b)

\* the number a digit key stands for
KeyValue(d) == Num(2 * DigitVal(d))

\* an operation is pending
Pending == previousValue # null /\ operation # NoOperation

\* s is a decimal numeral: an optional leading minus, then digits with at
\* most one decimal point among them, and at least one digit
IsNumeral(s) ==
  LET body == IF s # <<>> /\ Head(s) = "-" THEN Tail(s) ELSE s
  IN  /\ \A i \in 1..Len(body) : IsDigit(body[i]) \/ body[i] = "."
      /\ \E i \in 1..Len(body) : IsDigit(body[i])
      /\ Cardinality({i \in 1..Len(body) : body[i] = "."}) <= 1

RECURSIVE TypedDigits(_)
\* what a run of digit keys shows: leading zeros dropped, "0" for all zeros
TypedDigits(ks) ==
  IF ks = <<>> THEN <<"0">>
  ELSE IF Head(ks) = "0" THEN TypedDigits(Tail(ks))
  ELSE ks

\* the keys pressed so far are tracked and of the classes sh
Pressed(sh) ==
  /\ keys # Untracked
  /\ Len(keys) = Len(sh)
  /\ \A i \in 1..Len(sh) : KeyClass(keys[i]) = sh[i]

\* C1: clearAll (clearDisplay) yields display "0", no previousValue, no
\* operation, waitingForNumber false, and the memory value it found; a
\* memoryRecall after it shows the value stored before it.
C1_ClearAllKeepsMemory ==
  [][clearDisplay =>
       /\ display' = <<"0">>
       /\ previousValue' = null
       /\ operation' = NoOperation
       /\ waitingForNumber' = FALSE
       /\ memory' = memory]_vars

\* C2: in every reachable state display is a decimal numeral, and parsing
\* it does not yield NaN.
C2_DisplayIsNumeral == IsNumeral(display) /\ parseFloat(display) # NaN

\* C3: an operator pressed while an operation is pending applies the
\* pending operation to (previousValue, parse(display)) at once: display and
\* previousValue become the result, operation the new operator,
\* waitingForNumber true.
C3_ChainAppliesPending ==
  [][\A op \in Operators :
       (Pending /\ inputOperation(op)) =>
         LET r == Apply(previousValue, parseFloat(display), operation)
         IN  /\ display' = String(r)
             /\ previousValue' = r
             /\ operation' = op
             /\ waitingForNumber' = TRUE]_vars

\* C3, the worked part: from the default state the keys a,o1,b,o2,c,= display
\* (a o1 b) o2 c.
C3_ChainScript ==
  Pressed(<<"D", "O", "D", "O", "D", "=">>) =>
    display = String(Apply(Apply(KeyValue(keys[1]), KeyValue(keys[3]), keys[2]),
                           KeyValue(keys[5]), keys[4]))

\* C4: equals with previousValue and operation present sets display to the
\* text of apply(previousValue, parse(display), operation), clears
\* previousValue and operation, sets waitingForNumber, keeps memory.
C4_EqualsEvaluates ==
  [][(Pending /\ performCalculation) =>
       /\ display' = String(Apply(previousValue, parseFloat(display), operation))
       /\ previousValue' = null
       /\ operation' = NoOperation
       /\ waitingForNumber' = TRUE
       /\ memory' = memory]_vars

C4_Witness ==
  /\ keys = <<"5", "-", "2", "=">>
  /\ display = <<"3">>
  /\ previousValue = null
  /\ operation = NoOperation
  /\ waitingForNumber

\* C5: equals with no pending operation changes none of the five fields,
\* and every equals leaves no operation pending, so a second equals in a row
\* changes nothing.
C5_EqualsIdle ==
  [][performCalculation =>
       /\ operation' = NoOperation
       /\ (operation = NoOperation => state' = state)]_vars

C5_Witness ==
  /\ keys = <<"5", "-", "2", "=", "=">>
  /\ display = <<"3">>
  /\ previousValue = null
  /\ operation = NoOperation

\* C6: with divide pending and display parsing to 0, equals and a chained
\* operator both set display to "0", whatever the left operand; the state
\* after it takes the next number (5,/,0,= displays "0").
C6_Script ==
  (Pressed(<<"D", "O", "D", "=">>) /\ keys[2] = "/" /\ keys[3] = "0") =>
    display = <<"0">> /\ previousValue = null /\ waitingForNumber

C6_DivideByZero ==
  [][/\ ( /\ Pending
          /\ operation = "/"
          /\ parseFloat(display) = Num(0)
          /\ (performCalculation \/ \E op \in Operators : inputOperation(op)) ) =>
          /\ display' = <<"0">>
          /\ waitingForNumber' = TRUE
     /\ C6_Script']_vars

C6_Witness ==
  /\ keys = <<"5", "/", "0", "=">>
  /\ display = <<"0">>

\* C7 as stated: waitingForNumber is true right after every operator press,
\* every equals press and every memoryRecall.
C7_WaitingAfterEveryEquals ==
  [][((\E op \in Operators : inputOperation(op)) \/ performCalculation \/ memoryRecall)
       => waitingForNumber' = TRUE]_vars

\* C7 amended: waitingForNumber is true right after every operator press,
\* every equals press made while an operation is pending and every
\* memoryRecall; a digit pressed while it is true replaces display.
C7_WaitingAfterResult ==
  [][/\ ~waitingForNumber' =>
          ~( \/ \E op \in Operators : inputOperation(op)
             \/ (Pending /\ performCalculation)
             \/ memoryRecall )
     /\ \A d \in Digits :
          (waitingForNumber /\ inputNumber(d)) =>
             display' = <<d>> /\ waitingForNumber' = FALSE]_vars

C7_Witness ==
  /\ Pressed(<<"D", "O", "D">>)
  /\ Len(display) = 1
  /\ display[1] = keys[3]
  /\ keys[1] # keys[3]
  /\ ~waitingForNumber

\* C8: operation is absent whenever previousValue is absent.
C8_NoOperationWithoutPrevious == previousValue = null => operation = NoOperation

C8_Witness ==
  /\ Pressed(<<"D", "O", "D", "=">>)
  /\ previousValue = null
  /\ operation = NoOperation

\* C9: clearEntry sets display to "0" and changes nothing else; after
\* a,op,b the keys clearEntry,= evaluate the pending operation with second
\* operand 0 (5,+,2,clearEntry,= displays "5").
C9_Script ==
  Pressed(<<"D", "O", "D", "CE", "=">>) =>
    display = String(Apply(KeyValue(keys[1]), Num(0), keys[2]))

C9_ClearEntryOnlyDisplay ==
  [][/\ clearEntry =>
          /\ display' = <<"0">>
          /\ previousValue' = previousValue
          /\ operation' = operation
          /\ waitingForNumber' = waitingForNumber
          /\ memory' = memory
     /\ C9_Script']_vars

C9_Witness ==
  /\ keys = <<"5", "+", "2", "CE", "=">>
  /\ display = <<"5">>

\* C10: after any run of digit keys from the default state display is the
\* digits typed with leading zeros dropped ("0" when all are zeros), and the
\* other four fields are at their defaults.
C10_DigitsConcatenate ==
  (keys # Untracked /\ \A i \in 1..Len(keys) : keys[i] \in Digits) =>
    /\ display = TypedDigits(keys)
    /\ previousValue = null
    /\ operation = NoOperation
    /\ waitingForNumber = FALSE
    /\ memory = Num(0)

C10_Witness ==
  /\ keys = <<"0", "0", "2", "5">>
  /\ display = <<"2", "5">>

\* the number of decimal points in s
Points(s) == Cardinality({i \in 1..Len(s) : s[i] = "."})

\* C11: decimalPoint (inputDecimal) either sets display to "0." and clears
\* waitingForNumber, or appends one '.', or does nothing; the state after it
\* is one in which it does nothing, so a second application in a row changes
\* nothing; display never holds more than one decimal point.
C11_DecimalIdempotent ==
  [][/\ inputDecimal =>
          /\ \/ (waitingForNumber /\ display' = <<"0", ".">>)
             \/ (~waitingForNumber /\ Points(display) = 0 /\ display' = display \o <<".">>)
             \/ (~waitingForNumber /\ Points(display) > 0 /\ display' = display)
          /\ waitingForNumber' = FALSE
          /\ Points(display') = 1
          /\ <<previousValue, operation, memory>>' = <<previousValue, operation, memory>>
          /\ (~waitingForNumber /\ Points(display) = 1 => state' = state)
     /\ Points(display') <= 1]_vars

C11_Witness ==
  /\ Pressed(<<"D", ".", ".">>)
  /\ display = <<keys[1], ".">>
  /\ ~waitingForNumber

\* C12: from a state with memory 0 and display showing the number v,
\* memoryAdd sets memory to v; memoryRecall sets display to the text of
\* memory; memoryClear sets memory to 0; so d, memoryAdd, memoryRecall
\* displays d, and memoryClear, memoryRecall after it displays "0".
C12_Script ==
  /\ Pressed(<<"D", "M+">>) => memory = KeyValue(keys[1])
  /\ Pressed(<<"D", "M+", "MR">>) =>
       display = String(KeyValue(keys[1])) /\ memory = KeyValue(keys[1])
  /\ Pressed(<<"D", "M+", "MR", "MC", "MR">>) =>
       display = <<"0">> /\ memory = Num(0)

C12_MemoryRoundTrip ==
  [][/\ (memoryAdd /\ memory = Num(0) /\ IsNum(parseFloat(display))) =>
          memory' = parseFloat(display)
     /\ memoryRecall => display' = String(memory) /\ memory' = memory
     /\ memoryClear => memory' = Num(0) /\ display' = display
     /\ C12_Script']_vars

C12_Witness ==
  /\ keys = <<"2", "M+", "MR", "MC", "MR">>
  /\ display = <<"0">>
  /\ memory = Num(0)

\* what the claim says one toggleSign does to a display
Toggled(d) == IF d = <<"0">> THEN d ELSE String(JsSub(Num(0), parseFloat(d)))

\* C13 as stated: toggleSign changes nothing when display is "0"; otherwise
\* it sets display to the text of the negated parsed value and changes no
\* other field; a second toggleSign in a row gives back the display the
\* first one found.
C13_ToggleTwiceRestores ==
  [][toggleSign =>
       /\ display' = Toggled(display)
       /\ <<previousValue, operation, waitingForNumber, memory>>'
            = <<previousValue, operation, waitingForNumber, memory>>
       /\ Toggled(display') = display]_vars

\* C13 amended: as stated, except that a second toggleSign in a row gives
\* the text of the number the first one found on display
\* (String(parseFloat(display))): the display itself when it is the text of
\* a number ("2", "-2", "2"), not when it ends in a decimal point ("2.",
\* "-2", "2") or is no number.
C13_Script ==
  /\ Pressed(<<"D", "s", "s">>) => display = <<keys[1]>>
  /\ Pressed(<<"D", ".", "s", "s">>) => display = <<keys[1]>>

C13_ToggleTwiceRenders ==
  [][/\ toggleSign =>
          /\ display' = Toggled(display)
          /\ <<previousValue, operation, waitingForNumber, memory>>'
               = <<previousValue, operation, waitingForNumber, memory>>
          /\ Toggled(display') = String(parseFloat(display))
          /\ (display = String(parseFloat(display)) => Toggled(display') = display)
     /\ C13_Script']_vars

C13_Witness ==
  /\ keys = <<"2", ".", "s", "s">>
  /\ display = <<"2">>

\* C16: an operator press always takes effect: after it operation is the
\* operator pressed, waitingForNumber is true and previousValue is present
\* (with previousValue absent before, it becomes parse(display) and display
\* is unchanged); no reachable state has previousValue present and
\* operation absent.
C16_OperatorNeverIgnored ==
  [][/\ \A op \in Operators :
          inputOperation(op) =>
            /\ operation' = op
            /\ waitingForNumber' = TRUE
            /\ previousValue' # null
            /\ previousValue = null =>
                 previousValue' = parseFloat(display) /\ display' = display
     /\ previousValue' # null => operation' # NoOperation]_vars

C16_Witness ==
  /\ Pressed(<<"D", "O", "O">>)
  /\ operation = keys[3]
  /\ keys[3] # keys[2]
  /\ previousValue # null
  /\ waitingForNumber

\* C17: memoryAdd, memorySubtract and memoryClear leave display,
\* previousValue and operation unchanged; memoryRecall leaves previousValue,
\* operation and memory unchanged; digit, decimalPoint, operator, equals,
\* clearEntry and toggleSign leave memory unchanged.
C17_MemoryIndependent ==
  [][/\ (memoryAdd \/ memorySubtract \/ memoryClear) =>
          <<display, previousValue, operation>>' = <<display, previousValue, operation>>
     /\ memoryRecall =>
          <<previousValue, operation, memory>>' = <<previousValue, operation, memory>>
     /\ memory' # memory =>
          ~( \/ \E num \in Digits : inputNumber(num)
             \/ inputDecimal
             \/ \E op \in Operators : inputOperation(op)
             \/ performCalculation
             \/ clearEntry
             \/ toggleSign )]_vars

C17_Witness ==
  /\ keys = <<"2", "M+", "+", "2", "=">>
  /\ display = <<"4">>
  /\ memory = KeyValue("2")
  /\ previousValue = null

\* the engine operation the claim gives each key
KeyOperation(key) ==
  CASE key \in {"0", "1", "2", "3", "4", "5", "6", "7", "8", "9"} -> inputNumber(key)
    [] key = "." -> inputDecimal
    [] key \in {"+", "-", "*", "/"} -> inputOperation(key)
    [] key \in {"Enter", "="} -> performCalculation
    [] key = "Escape" -> clearDisplay
    [] key = "Backspace" -> clearEntry
    [] key = "s" -> toggleSign
    [] key = "m" -> memoryAdd
    [] key = "n" -> memorySubtract
    [] key = "r" -> memoryRecall
    [] key = "c" -> memoryClear
    [] OTHER -> state' = state /\ keys' = keys

\* C15: a keydown of a recognised key is one step of the operation the
\* claim gives that key, which is a step the button of that operation can
\* take; a keydown of any other key leaves the state unchanged.
C15_KeyDispatch ==
  [][\A key \in KeyNames :
       KeyDown(key) =>
         /\ KeyOperation(key)
         /\ (state' # state => Button)]_vars

C15_Witness ==
  /\ sent = <<"2", "n">>
  /\ display = <<"2">>
  /\ waitingForNumber
  /\ memory = JsSub(Num(0), KeyValue("2"))

\* C14: every input event is applied to the state the previous event
\* produced, none lost and none computed from a stale state: once the
\* keydowns of a run of digit keys are rendered, display shows all of them.
C14_NoEventLost ==
  (/\ update = NoUpdate
   /\ sent # Untracked
   /\ \A i \in 1..Len(sent) : IsDigit(sent[i]))
    => display = TypedDigits(sent)
====
